---------------------------- MODULE Spec2Model ----------------------------
(***************************************************************************)
(* Interruptible websocket proxy: the backend connection pool              *)
(* (BackendWSConnPool), the pipe manager (WebsocketPipeManager) and the    *)
(* persistent pipe with its two copy loops and its error listener.         *)
(*                                                                         *)
(* Every goroutine is a process with a program counter; one action is one  *)
(* statement (or one run of statements that touch no shared state another  *)
(* goroutine can observe in between).  Blocking calls (Read, Write, Dial,  *)
(* channel operations) are the points where goroutines interleave.         *)
(***************************************************************************)
EXTENDS Integers, Sequences, FiniteSets, TLC

\* ------------------------------------------------------------- bounds
\* NewBackendConnPool(maxIdleConnCount, maxAllowedErrorCountPerConn, ...)
MaxIdleConnections == 1
MaxAllowedErrorCount == 2
\* NewWebsocketPipeManager(..., interruptMemoryLimitPerConnInBytes, ...)
BufferByteLimit == 2
\* stand-in for the 32 KiB read buffer of copyBuffer (size := 32 * 1024)
CopyBufSize == 2
\* number of bytes a client sends before the model stops producing data
MaxClientBytes == 3
\* how much more than needed a reallocating append may reserve
CapSlack == 1
\* number of bytes the first of two clients sends
PairClientBytes == 1

\* ------------------------------------------------------------- values
Nil == 0
URLs == {"ws://b1", "ws://b2", "ws://b3"}
ClientIds == {"c1", "c2"}
\* CreatePipe calls (one goroutine each); the pipe a call creates has its id
Callers == {1, 2}
\* AddToPool calls in flight
Registrars == {1, 2}
\* goroutines that can be inside GetConn: a CreatePipe call, a pipe's listener
Threads == Callers \X {"create", "listen"}
\* goroutines that call methods of the pool's lists: the filler, the refresher,
\* AddToPool calls, and the threads (inside GetConn or MarkError)
ListUsers == {<<"filler", 0>>, <<"refresher", 0>>}
                 \cup ({"add"} \X Registrars) \cup ({"create", "listen"} \X Callers)

VARIABLES
    \* BackendWSConnPool
    availableBackendUrls,   \* list of urls
    registeredBackendUrls,  \* sync.Map used as a set of urls
    inUseMap,               \* sync.Map url -> *BackendConn (Nil: no entry)
    idleConnections,        \* list of *BackendConn
    idleConnCount,          \* int64
    erroredConnections,     \* list of *BackendConn
    backendConns,           \* heap of BackendConn objects, index = pointer
    netConns,               \* dialed connections, index = net.Conn, "live"/"dead"
    up,                     \* url -> whether a dial of it succeeds
    listOp,                 \* goroutine -> the list it is inside, and with what
    \* goroutines of the pool's callers
    addToPool,              \* registrar -> [pc, url, todo: the urls it will add]
    getConn,                \* thread -> [pc, conn]
    \* WebsocketPipeManager
    clientPipesMap,         \* sync.Map clientId -> pipe (Nil: no entry)
    interruptMemoryLimitPerConnInBytes,  \* int, given to NewWebsocketPipeManager
    createPipe,             \* caller -> [pc, clientId, ret]
    \* PersistentPipe, one per CreatePipe call that got that far
    pipe,                   \* fields of the PersistentPipe
    fwd,                    \* copyBuffer(CopyToBackend) goroutine
    bwd,                    \* copyBuffer(CopyFromBacked) goroutine
    lis,                    \* listenForErrors goroutine
    \* the outside world, per pipe
    clientBytes,            \* number of bytes the client sends in all
    clientRead,             \* number of bytes read from the client so far
    delivered,              \* bytes written successfully to backends, in order
    \* a nil-pointer dereference ends the whole process
    panicked

poolVars == <<availableBackendUrls, registeredBackendUrls, inUseMap,
              idleConnections, idleConnCount, erroredConnections,
              backendConns, netConns, up, listOp>>
callVars == <<addToPool, getConn>>
mgrVars == <<clientPipesMap, createPipe, interruptMemoryLimitPerConnInBytes>>
pipeVars == <<pipe, fwd, bwd, lis, clientBytes, clientRead, delivered>>
vars == <<poolVars, callVars, mgrVars, pipeVars, panicked>>

\* ------------------------------------------------------------ helpers
Range(s) == {s[i] : i \in 1..Len(s)}
Count(s, x) == Cardinality({i \in 1..Len(s) : s[i] = x})
IsPrefix(s, t) == Len(s) <= Len(t) /\ \A i \in 1..Len(s) : s[i] = t[i]
Min(a, b) == IF a <= b THEN a ELSE b

\* type BackendConn struct { net.Conn; connUrl string; ErrorInfo }
BackendConn(url) ==
    [Conn |-> Nil, connUrl |-> url, errorCount |-> 0, lastCheckedTime |-> Nil]

\* a goroutine that is inside no method of a list
NoListOp == [q |-> "none", x |-> Nil, hit |-> FALSE]

\* ============================================================= the pool

\* NewBackendConnPool: empty lists and maps, idleConnCount = 0
PoolInit ==
    /\ availableBackendUrls = <<>>
    /\ registeredBackendUrls = {}
    /\ inUseMap = [u \in URLs |-> Nil]
    /\ idleConnections = <<>>
    /\ idleConnCount = 0
    /\ erroredConnections = <<>>
    /\ backendConns = <<>>
    /\ netConns = <<>>
    /\ listOp = [u \in ListUsers |-> NoListOp]

\* AddToPool without the check of registeredBackendUrls
AddToPool_Load_NoCheck(r) ==
    /\ ~panicked
    /\ addToPool[r].pc = "load"
    /\ addToPool' = [addToPool EXCEPT ![r].pc = "push"]
    /\ UNCHANGED <<poolVars, getConn, mgrVars, pipeVars, panicked>>

\* AddToPool, line 290: the Load of registeredBackendUrls
AddToPool_Load(r) ==
    /\ ~panicked
    /\ addToPool[r].pc = "load"
    /\ addToPool' = [addToPool EXCEPT ![r].pc =
                        IF addToPool[r].url \in registeredBackendUrls
                        THEN "error" ELSE "push"]
    /\ UNCHANGED <<poolVars, getConn, mgrVars, pipeVars, panicked>>

\* AddToPool, lines 293-296: PushBack, Store, return nil
AddToPool_Push(r) ==
    /\ ~panicked
    /\ addToPool[r].pc = "push"
    /\ availableBackendUrls' = Append(availableBackendUrls, addToPool[r].url)
    /\ registeredBackendUrls' = registeredBackendUrls \cup {addToPool[r].url}
    /\ addToPool' = [addToPool EXCEPT ![r].pc = "ok"]
    /\ UNCHANGED <<inUseMap, idleConnections, idleConnCount, erroredConnections,
                   backendConns, netConns, up, listOp, getConn, mgrVars, pipeVars, panicked>>

\* a registrar that has returned calls AddToPool with the next url it has
AddToPool_Call(r) ==
    /\ ~panicked
    /\ addToPool[r].pc \in {"ok", "error"}
    /\ addToPool[r].todo # <<>>
    /\ addToPool' = [addToPool EXCEPT ![r] = [pc |-> "load", url |-> Head(addToPool[r].todo),
                                              todo |-> Tail(addToPool[r].todo)]]
    /\ UNCHANGED <<poolVars, getConn, mgrVars, pipeVars, panicked>>

\* MarkError that stamps the time and leaves errorCount as it is
MarkErrorConns_NoCount(c) == [backendConns EXCEPT ![c].lastCheckedTime = 1]

\* MarkError(conn): what it does to the pool's state
MarkErrorInUse(c) == [inUseMap EXCEPT ![backendConns[c].connUrl] = Nil]
MarkErrorConns(c) ==
    [backendConns EXCEPT ![c].lastCheckedTime = 1,
                         ![c].errorCount = backendConns[c].errorCount + 1]
MarkErrorQueue(c) == Append(erroredConnections, c)

\* a filler that takes the url from the available list and never makes the
\* idle connection for it
startIdleConnectionFiller_NoPush ==
    /\ ~panicked
    /\ idleConnCount <= MaxIdleConnections
    /\ availableBackendUrls # <<>>
    /\ availableBackendUrls' = Tail(availableBackendUrls)
    /\ idleConnCount' = idleConnCount + 1
    /\ UNCHANGED <<registeredBackendUrls, inUseMap, erroredConnections, netConns, up, listOp,
                   backendConns, idleConnections, callVars, mgrVars, pipeVars, panicked>>

\* startIdleConnectionFiller: one iteration of its loop
startIdleConnectionFiller ==
    /\ ~panicked
    /\ idleConnCount <= MaxIdleConnections
    /\ availableBackendUrls # <<>>
    /\ availableBackendUrls' = Tail(availableBackendUrls)
    /\ idleConnCount' = idleConnCount + 1
    /\ backendConns' = Append(backendConns, BackendConn(Head(availableBackendUrls)))
    /\ idleConnections' = Append(idleConnections, Len(backendConns) + 1)
    /\ UNCHANGED <<registeredBackendUrls, inUseMap, erroredConnections, netConns, up, listOp,
                   callVars, mgrVars, pipeVars, panicked>>

\* a refresher that puts every errored entry back, whatever its errorCount
erroredConnectionRefresher_NoMax ==
    /\ ~panicked
    /\ erroredConnections # <<>>
    /\ LET c == Head(erroredConnections) IN
         /\ erroredConnections' = Tail(erroredConnections)
         /\ backendConns' = [backendConns EXCEPT ![c].Conn = Nil]
         /\ idleConnections' = Append(idleConnections, c)
    /\ UNCHANGED <<availableBackendUrls, registeredBackendUrls, inUseMap, idleConnCount,
                   netConns, up, listOp, callVars, mgrVars, pipeVars, panicked>>

\* a refresher that counts the entry it puts back into the idle list
erroredConnectionRefresher_Counts ==
    /\ ~panicked
    /\ erroredConnections # <<>>
    /\ LET c == Head(erroredConnections) IN
         /\ erroredConnections' = Tail(erroredConnections)
         /\ IF backendConns[c].errorCount < MaxAllowedErrorCount
            THEN /\ backendConns' = [backendConns EXCEPT ![c].Conn = Nil]
                 /\ idleConnections' = Append(idleConnections, c)
                 /\ idleConnCount' = idleConnCount + 1
            ELSE UNCHANGED <<backendConns, idleConnections, idleConnCount>>
    /\ UNCHANGED <<availableBackendUrls, registeredBackendUrls, inUseMap,
                   netConns, up, listOp, callVars, mgrVars, pipeVars, panicked>>

\* a refresher that takes the url of the entry it drops out of the registered urls
erroredConnectionRefresher_Deregisters ==
    /\ ~panicked
    /\ erroredConnections # <<>>
    /\ LET c == Head(erroredConnections) IN
         /\ erroredConnections' = Tail(erroredConnections)
         /\ IF backendConns[c].errorCount < MaxAllowedErrorCount
            THEN /\ backendConns' = [backendConns EXCEPT ![c].Conn = Nil]
                 /\ idleConnections' = Append(idleConnections, c)
                 /\ UNCHANGED registeredBackendUrls
            ELSE /\ registeredBackendUrls' = registeredBackendUrls \ {backendConns[c].connUrl}
                 /\ UNCHANGED <<backendConns, idleConnections>>
    /\ UNCHANGED <<availableBackendUrls, inUseMap, idleConnCount,
                   netConns, up, listOp, callVars, mgrVars, pipeVars, panicked>>

\* erroredConnectionRefresher: one iteration of its loop
erroredConnectionRefresher ==
    /\ ~panicked
    /\ erroredConnections # <<>>
    /\ LET c == Head(erroredConnections) IN
         /\ erroredConnections' = Tail(erroredConnections)
         /\ IF backendConns[c].errorCount < MaxAllowedErrorCount
            THEN /\ backendConns' = [backendConns EXCEPT ![c].Conn = Nil]
                 /\ idleConnections' = Append(idleConnections, c)
            ELSE UNCHANGED <<backendConns, idleConnections>>
    /\ UNCHANGED <<availableBackendUrls, registeredBackendUrls, inUseMap, idleConnCount,
                   netConns, up, listOp, callVars, mgrVars, pipeVars, panicked>>

\* GetConn that takes the entry at the back of the idle list
GetConn_Fetch_Back(t) ==
    /\ ~panicked
    /\ getConn[t].pc = "fetch"
    /\ IF idleConnections = <<>>
       THEN UNCHANGED <<idleConnections, getConn>>
       ELSE /\ idleConnections' = SubSeq(idleConnections, 1, Len(idleConnections) - 1)
            /\ getConn' = [getConn EXCEPT ![t] = [pc |-> "dial",
                                 conn |-> idleConnections[Len(idleConnections)]]]
    /\ UNCHANGED <<availableBackendUrls, registeredBackendUrls, inUseMap, idleConnCount,
                   erroredConnections, backendConns, netConns, up, listOp, addToPool,
                   mgrVars, pipeVars, panicked>>

\* GetConn, lines 259-264: tryAndFetchConnectionFromIdleList under idleConnMutex;
\* with no idle connection the caller backs off and tries again
GetConn_Fetch(t) ==
    /\ ~panicked
    /\ getConn[t].pc = "fetch"
    /\ IF idleConnections = <<>>
       THEN UNCHANGED <<idleConnections, getConn>>
       ELSE /\ idleConnections' = Tail(idleConnections)
            /\ getConn' = [getConn EXCEPT ![t] = [pc |-> "dial", conn |-> Head(idleConnections)]]
    /\ UNCHANGED <<availableBackendUrls, registeredBackendUrls, inUseMap, idleConnCount,
                   erroredConnections, backendConns, netConns, up, listOp, addToPool,
                   mgrVars, pipeVars, panicked>>

\* GetConn that returns the entry without the Store into inUseMap
GetConn_Dial_NoStore(t) ==
    /\ ~panicked
    /\ getConn[t].pc = "dial"
    /\ LET c == getConn[t].conn IN
         /\ netConns' = Append(netConns, "live")
         /\ backendConns' = [backendConns EXCEPT ![c].Conn = Len(netConns) + 1]
         /\ idleConnCount' = idleConnCount - 1
         /\ getConn' = [getConn EXCEPT ![t].pc = "ret"]
    /\ UNCHANGED <<availableBackendUrls, registeredBackendUrls, idleConnections, up, listOp,
                   inUseMap, erroredConnections, addToPool, mgrVars, pipeVars, panicked>>

\* GetConn that returns the entry whether or not the dial succeeded
GetConn_Dial_ReturnsFailed(t) ==
    /\ ~panicked
    /\ getConn[t].pc = "dial"
    /\ LET c == getConn[t].conn
           u == backendConns[c].connUrl IN
         /\ IF backendConns[c].Conn = Nil /\ up[u]
            THEN /\ netConns' = Append(netConns, "live")
                 /\ backendConns' = [backendConns EXCEPT ![c].Conn = Len(netConns) + 1]
            ELSE UNCHANGED <<netConns, backendConns>>
         /\ idleConnCount' = idleConnCount - 1
         /\ inUseMap' = [inUseMap EXCEPT ![u] = c]
         /\ getConn' = [getConn EXCEPT ![t].pc = "ret"]
    /\ UNCHANGED <<availableBackendUrls, registeredBackendUrls, idleConnections, up, listOp,
                   erroredConnections, addToPool, mgrVars, pipeVars, panicked>>

\* GetConn, lines 265-276: dial if conn.Conn is nil; a failed dial marks the
\* entry errored and tries the next one; else count down, store in inUseMap, return
GetConn_Dial(t) ==
    /\ ~panicked
    /\ getConn[t].pc = "dial"
    /\ LET c == getConn[t].conn
           u == backendConns[c].connUrl IN
         IF backendConns[c].Conn = Nil /\ ~up[u]
         THEN /\ inUseMap' = MarkErrorInUse(c)
              /\ backendConns' = MarkErrorConns(c)
              /\ erroredConnections' = MarkErrorQueue(c)
              /\ getConn' = [getConn EXCEPT ![t] = [pc |-> "fetch", conn |-> Nil]]
              /\ UNCHANGED <<netConns, idleConnCount>>
         ELSE /\ IF backendConns[c].Conn = Nil
                 THEN /\ netConns' = Append(netConns, "live")
                      /\ backendConns' = [backendConns EXCEPT ![c].Conn = Len(netConns) + 1]
                 ELSE UNCHANGED <<netConns, backendConns>>
              /\ idleConnCount' = idleConnCount - 1
              /\ inUseMap' = [inUseMap EXCEPT ![u] = c]
              /\ getConn' = [getConn EXCEPT ![t].pc = "ret"]
              /\ UNCHANGED erroredConnections
    /\ UNCHANGED <<availableBackendUrls, registeredBackendUrls, idleConnections, up, listOp,
                   addToPool, mgrVars, pipeVars, panicked>>

\* a backend goes away: its connection fails from now on
BackendFail(n) ==
    /\ ~panicked
    /\ netConns[n] = "live"
    /\ netConns' = [netConns EXCEPT ![n] = "dead"]
    /\ UNCHANGED <<availableBackendUrls, registeredBackendUrls, inUseMap, idleConnections,
                   idleConnCount, erroredConnections, backendConns, up, listOp,
                   callVars, mgrVars, pipeVars, panicked>>

\* ===================================================== the pipe manager

\* NewPersistentPipe (with the fields of a pipe that does not exist yet);
\* clientConn says whether the caller's conn is a connection (TRUE) or nil
NewPersistentPipe(exists, clientID, clientConn, backendConn, limit) ==
    [exists |-> exists, ClientID |-> clientID, ClientConn |-> clientConn,
     BackendConn |-> backendConn, ClientErr |-> "nil", BackendErr |-> "nil",
     streamOn |-> FALSE, backendBuffer |-> <<>>, bufferCap |-> limit,
     bufferByteLimit |-> limit]

NoPipe == NewPersistentPipe(FALSE, "", FALSE, Nil, BufferByteLimit)

\* CreatePipe without the Load of clientPipesMap: every call goes on to GetConn
CreatePipe_Load_NoCheck(k) ==
    /\ ~panicked
    /\ createPipe[k].pc = "load"
    /\ createPipe' = [createPipe EXCEPT ![k].pc = "getconn"]
    /\ getConn' = [getConn EXCEPT ![<<k, "create">>].pc = "fetch"]
    /\ UNCHANGED <<poolVars, addToPool, clientPipesMap,
                   interruptMemoryLimitPerConnInBytes, pipeVars, panicked>>

\* CreatePipe, lines 211-216: the Load of clientPipesMap; a known clientId
\* returns the error, any other goes on to GetConn
CreatePipe_Load(k) ==
    /\ ~panicked
    /\ createPipe[k].pc = "load"
    /\ IF clientPipesMap[createPipe[k].clientId] # Nil
       THEN /\ createPipe' = [createPipe EXCEPT ![k].pc = "returned", ![k].ret = "duplicate"]
            /\ UNCHANGED getConn
       ELSE /\ createPipe' = [createPipe EXCEPT ![k].pc = "getconn"]
            /\ getConn' = [getConn EXCEPT ![<<k, "create">>].pc = "fetch"]
    /\ UNCHANGED <<poolVars, addToPool, clientPipesMap,
                   interruptMemoryLimitPerConnInBytes, pipeVars, panicked>>

\* Stream, lines 43-58 of persistentpipe.go: its result for a pipe
StreamResult(p) ==
    IF p.streamOn THEN "already running"
    ELSE IF ~p.ClientConn \/ p.BackendConn = Nil THEN "nil connection"
    ELSE "nil"

\* the buffer of a copy loop: buf := make([]byte, size)
NewCopy == [pc |-> "read", err |-> "nil", bufLen |-> CopyBufSize, bufAlias |-> FALSE,
            wr |-> <<>>, rd |-> Nil]
NoCopy == [NewCopy EXCEPT !.pc = "off"]

\* CreatePipe, lines 218-242: NewPersistentPipe, the listener closure, the Store
\* into clientPipesMap, Stream (which starts the three goroutines), and then
\* either the send of Stream's error or the receive on errChan
CreatePipe_Store(k) ==
    /\ ~panicked
    /\ createPipe[k].pc = "getconn"
    /\ getConn[<<k, "create">>].pc = "ret"
    /\ LET p == NewPersistentPipe(TRUE, createPipe[k].clientId, createPipe[k].conn,
                                  getConn[<<k, "create">>].conn,
                                  interruptMemoryLimitPerConnInBytes) IN
         /\ clientPipesMap' = [clientPipesMap EXCEPT ![createPipe[k].clientId] = k]
         /\ IF StreamResult(p) = "nil"
            THEN /\ pipe' = [pipe EXCEPT ![k] = [p EXCEPT !.streamOn = TRUE]]
                 /\ fwd' = [fwd EXCEPT ![k] = NewCopy]
                 /\ bwd' = [bwd EXCEPT ![k] = NewCopy]
                 /\ lis' = [lis EXCEPT ![k] = "recv"]
                 /\ createPipe' = [createPipe EXCEPT ![k].pc = "wait"]
            ELSE /\ pipe' = [pipe EXCEPT ![k] = p]
                 /\ createPipe' = [createPipe EXCEPT ![k].pc = "sendErr"]
                 /\ UNCHANGED <<fwd, bwd, lis>>
    /\ getConn' = [getConn EXCEPT ![<<k, "create">>] = [pc |-> "idle", conn |-> Nil]]
    /\ UNCHANGED <<poolVars, addToPool, interruptMemoryLimitPerConnInBytes,
                   clientBytes, clientRead, delivered, panicked>>

\* listenForErrors, lines 62-64: the receive on the pipe's errChan, which is the
\* send of the backward loop (line 130 of copyBuffer), then streamOn = false
listenForErrors_Recv(k) ==
    /\ ~panicked
    /\ lis[k] = "recv"
    /\ bwd[k].pc = "send"
    /\ lis' = [lis EXCEPT ![k] = "listener"]
    /\ bwd' = [bwd EXCEPT ![k].pc = "after"]
    /\ pipe' = [pipe EXCEPT ![k].streamOn = FALSE]
    /\ UNCHANGED <<poolVars, callVars, mgrVars, fwd, clientBytes, clientRead, delivered, panicked>>

\* a listener that clears BackendErr at once, before it has a new connection
ErrorListener_ClearsFirst(k) ==
    /\ ~panicked
    /\ lis[k] = "listener"
    /\ pipe[k].BackendErr # "nil"
    /\ inUseMap' = MarkErrorInUse(pipe[k].BackendConn)
    /\ backendConns' = MarkErrorConns(pipe[k].BackendConn)
    /\ erroredConnections' = MarkErrorQueue(pipe[k].BackendConn)
    /\ getConn' = [getConn EXCEPT ![<<k, "listen">>].pc = "fetch"]
    /\ lis' = [lis EXCEPT ![k] = "getconn"]
    /\ pipe' = [pipe EXCEPT ![k].BackendErr = "nil"]
    /\ UNCHANGED <<availableBackendUrls, registeredBackendUrls, idleConnections,
                   idleConnCount, netConns, up, listOp, addToPool, mgrVars,
                   fwd, bwd, clientBytes, clientRead, delivered, panicked>>

\* the ErrorListener closure of CreatePipe, lines 220-225 and 230-234: with a
\* backend error MarkError and the call of GetConn; with a client error the send
\* on CreatePipe's errChan (received at line 242); else the loop spins
ErrorListener(k) ==
    /\ ~panicked
    /\ lis[k] = "listener"
    /\ IF pipe[k].BackendErr # "nil"
       THEN /\ inUseMap' = MarkErrorInUse(pipe[k].BackendConn)
            /\ backendConns' = MarkErrorConns(pipe[k].BackendConn)
            /\ erroredConnections' = MarkErrorQueue(pipe[k].BackendConn)
            /\ getConn' = [getConn EXCEPT ![<<k, "listen">>].pc = "fetch"]
            /\ lis' = [lis EXCEPT ![k] = "getconn"]
            /\ UNCHANGED createPipe
       ELSE IF pipe[k].ClientErr # "nil"
       THEN /\ createPipe[k].pc = "wait"
            /\ createPipe' = [createPipe EXCEPT ![k].pc = "returned", ![k].ret = "client error"]
            /\ lis' = [lis EXCEPT ![k] = "recv"]
            /\ UNCHANGED <<inUseMap, backendConns, erroredConnections, getConn>>
       ELSE UNCHANGED <<inUseMap, backendConns, erroredConnections, getConn, lis, createPipe>>
    /\ UNCHANGED <<availableBackendUrls, registeredBackendUrls, idleConnections,
                   idleConnCount, netConns, up, listOp, addToPool, clientPipesMap,
                   interruptMemoryLimitPerConnInBytes,
                   pipe, fwd, bwd, clientBytes, clientRead, delivered, panicked>>

\* the ErrorListener closure, line 226: the new connection becomes the pipe's
ErrorListener_Assign(k) ==
    /\ ~panicked
    /\ lis[k] = "getconn"
    /\ getConn[<<k, "listen">>].pc = "ret"
    /\ pipe' = [pipe EXCEPT ![k].BackendConn = getConn[<<k, "listen">>].conn]
    /\ getConn' = [getConn EXCEPT ![<<k, "listen">>] = [pc |-> "idle", conn |-> Nil]]
    /\ lis' = [lis EXCEPT ![k] = "clear"]
    /\ UNCHANGED <<poolVars, addToPool, mgrVars, fwd, bwd, clientBytes, clientRead, delivered, panicked>>

\* the ErrorListener closure, lines 227-229: BackendErr = nil, and back to the
\* receive of listenForErrors
ErrorListener_Clear(k) ==
    /\ ~panicked
    /\ lis[k] = "clear"
    /\ pipe' = [pipe EXCEPT ![k].BackendErr = "nil"]
    /\ lis' = [lis EXCEPT ![k] = "recv"]
    /\ UNCHANGED <<poolVars, callVars, mgrVars, fwd, bwd, clientBytes, clientRead, delivered, panicked>>

\* ============================================================ copyBuffer

\* the bytes of the client's stream: the i-th byte read is i
Chunk(from, n) == [i \in 1..n |-> from + i]

\* src().Read(buf) when buf shares the array of backendBuffer (after line 81):
\* the bytes read land on the first bytes of the array
ReadInto(alias, bb, chunk) ==
    IF alias
    THEN [i \in 1..Len(bb) |-> IF i <= Len(chunk) THEN chunk[i] ELSE bb[i]]
    ELSE bb

\* the capacities append may give backendBuffer when it grows by n bytes: the
\* one it has while that is enough, a new and sufficiently large array otherwise
AppendCaps(p, n) ==
    IF Len(p.backendBuffer) + n <= p.bufferCap
    THEN {p.bufferCap}
    ELSE (Len(p.backendBuffer) + n) .. (Len(p.backendBuffer) + n + CapSlack)

\* copyBuffer(CopyToBackend), lines 69-83 with nr > 0: Read returned n bytes.
\* With a backend error they go to backendBuffer (or the loop breaks at the
\* limit); with bytes in backendBuffer buf becomes backendBuffer plus the
\* bytes and nr the length of backendBuffer; then the Write is next
Fwd_ReadData(k, n) ==
    LET chunk == Chunk(clientRead[k], n)
        bb == ReadInto(fwd[k].bufAlias, pipe[k].backendBuffer, chunk) IN
      /\ clientRead' = [clientRead EXCEPT ![k] = clientRead[k] + n]
      /\ IF pipe[k].BackendErr # "nil"
         THEN IF Len(bb) + n > pipe[k].bufferByteLimit
              THEN /\ fwd' = [fwd EXCEPT ![k].pc = "done", ![k].err = "buffer limit"]
                   /\ pipe' = [pipe EXCEPT ![k].backendBuffer = bb]
              ELSE /\ pipe' = [pipe EXCEPT ![k].backendBuffer = bb \o chunk]
                   /\ UNCHANGED fwd
         ELSE IF Len(bb) > 0
         THEN /\ fwd' = [fwd EXCEPT ![k].pc = "write", ![k].wr = bb,
                                    ![k].bufLen = Len(bb) + n,
                                    ![k].bufAlias = (Len(bb) + n <= pipe[k].bufferCap)]
              /\ pipe' = [pipe EXCEPT ![k].backendBuffer = bb]
         ELSE /\ fwd' = [fwd EXCEPT ![k].pc = "write", ![k].wr = chunk]
              /\ UNCHANGED pipe

\* copyBuffer(CopyToBackend), lines 69 and 120-125 with nr = 0: the Read failed;
\* the loop breaks, with err set unless the error is io.EOF
Fwd_ReadFail(k, e) ==
    /\ fwd' = [fwd EXCEPT ![k].pc = "done",
                          ![k].err = IF e = "EOF" THEN "nil" ELSE "read error"]
    /\ UNCHANGED <<pipe, clientRead>>

\* copyBuffer(CopyToBackend): one Read of the client connection
Fwd_Read(k) ==
    /\ ~panicked
    /\ fwd[k].pc = "read"
    /\ \/ \E n \in 1..Min(fwd[k].bufLen, clientBytes[k] - clientRead[k]) : Fwd_ReadData(k, n)
       \/ \E e \in {"EOF", "closed"} : Fwd_ReadFail(k, e)
    /\ UNCHANGED <<poolVars, callVars, mgrVars, bwd, lis, clientBytes, delivered, panicked>>

\* copyBuffer(CopyToBackend), lines 84-118: dst().Write(buf[0:nr]) on the pipe's
\* BackendConn as it is now.  A failed Write appends buf[0:nr] to backendBuffer
\* and continues; a full one empties backendBuffer
Fwd_Write(k) ==
    /\ ~panicked
    /\ fwd[k].pc = "write"
    /\ LET n == backendConns[pipe[k].BackendConn].Conn IN
         IF n = Nil
         THEN /\ panicked' = TRUE
              /\ UNCHANGED <<pipe, fwd, delivered>>
         ELSE /\ UNCHANGED panicked
              /\ IF netConns[n] = "live"
                 THEN /\ delivered' = [delivered EXCEPT ![k] = delivered[k] \o fwd[k].wr]
                      /\ pipe' = [pipe EXCEPT ![k].backendBuffer = <<>>]
                      /\ fwd' = [fwd EXCEPT ![k].pc = "read", ![k].wr = <<>>]
                 ELSE /\ \E cap \in AppendCaps(pipe[k], Len(fwd[k].wr)) :
                           /\ pipe' = [pipe EXCEPT
                                  ![k].backendBuffer = pipe[k].backendBuffer \o fwd[k].wr,
                                  ![k].bufferCap = cap]
                           /\ fwd' = [fwd EXCEPT
                                  ![k].pc = "read", ![k].wr = <<>>,
                                  ![k].bufAlias = fwd[k].bufAlias /\ cap = pipe[k].bufferCap]
                      /\ UNCHANGED delivered
    /\ UNCHANGED <<poolVars, callVars, mgrVars, bwd, lis, clientBytes, clientRead>>

\* a backward loop that does not look at BackendErr before its Read
Bwd_Top_NoWait(k) ==
    /\ ~panicked
    /\ bwd[k].pc = "read"
    /\ IF backendConns[pipe[k].BackendConn].Conn = Nil
       THEN /\ panicked' = TRUE
            /\ UNCHANGED bwd
       ELSE /\ bwd' = [bwd EXCEPT ![k].pc = "reading",
                                  ![k].rd = backendConns[pipe[k].BackendConn].Conn]
            /\ UNCHANGED panicked
    /\ UNCHANGED <<poolVars, callVars, mgrVars, pipe, fwd, lis, clientBytes, clientRead, delivered>>

\* copyBuffer(CopyFromBacked), lines 60-69: with a backend error the loop checks
\* the buffer limit and sleeps; else it calls Read on the pipe's BackendConn
Bwd_Top(k) ==
    /\ ~panicked
    /\ bwd[k].pc = "read"
    /\ IF pipe[k].BackendErr # "nil"
       THEN /\ bwd' = IF Len(pipe[k].backendBuffer) > pipe[k].bufferByteLimit
                      THEN [bwd EXCEPT ![k].pc = "done", ![k].err = "buffer limit"]
                      ELSE bwd
            /\ UNCHANGED panicked
       ELSE IF backendConns[pipe[k].BackendConn].Conn = Nil
       THEN /\ panicked' = TRUE
            /\ UNCHANGED bwd
       ELSE /\ bwd' = [bwd EXCEPT ![k].pc = "reading",
                                  ![k].rd = backendConns[pipe[k].BackendConn].Conn]
            /\ UNCHANGED panicked
    /\ UNCHANGED <<poolVars, callVars, mgrVars, pipe, fwd, lis, clientBytes, clientRead, delivered>>

\* copyBuffer(CopyFromBacked), lines 69-118: Read returned bytes of the backend,
\* which are written to the client; the loop breaks when that Write fails
Bwd_ReadData(k) ==
    /\ ~panicked
    /\ bwd[k].pc = "reading"
    /\ netConns[bwd[k].rd] = "live"
    /\ bwd' = IF fwd[k].pc = "done"
              THEN [bwd EXCEPT ![k].pc = "done", ![k].err = "write error"]
              ELSE [bwd EXCEPT ![k].pc = "read", ![k].rd = Nil]
    /\ UNCHANGED <<poolVars, callVars, mgrVars, pipe, fwd, lis, clientBytes, clientRead, delivered, panicked>>

\* copyBuffer(CopyFromBacked), lines 69 and 126-131: the Read of the backend
\* failed; BackendErr is set, if it is nil, and sent on errChan
Bwd_ReadFail(k) ==
    /\ ~panicked
    /\ bwd[k].pc = "reading"
    /\ netConns[bwd[k].rd] = "dead"
    /\ IF pipe[k].BackendErr = "nil"
       THEN /\ pipe' = [pipe EXCEPT ![k].BackendErr = "read error"]
            /\ bwd' = [bwd EXCEPT ![k].pc = "send", ![k].rd = Nil]
       ELSE /\ bwd' = [bwd EXCEPT ![k].pc = "after", ![k].rd = Nil]
            /\ UNCHANGED pipe
    /\ UNCHANGED <<poolVars, callVars, mgrVars, fwd, lis, clientBytes, clientRead, delivered, panicked>>

\* copyBuffer(CopyFromBacked), lines 132-135: the buffer limit after the send
Bwd_After(k) ==
    /\ ~panicked
    /\ bwd[k].pc = "after"
    /\ bwd' = IF Len(pipe[k].backendBuffer) > pipe[k].bufferByteLimit
              THEN [bwd EXCEPT ![k].pc = "done", ![k].err = "buffer limit"]
              ELSE [bwd EXCEPT ![k].pc = "read"]
    /\ UNCHANGED <<poolVars, callVars, mgrVars, pipe, fwd, lis, clientBytes, clientRead, delivered, panicked>>

\* ======================================================= specifications

\* the manager before any CreatePipe: no pipe, every goroutine still to start;
\* todo gives each registrar its urls, ids each CreatePipe call its clientId
\* ("" for a call that is never made), bytes each client its number of bytes,
\* limit is the interruptMemoryLimitPerConnInBytes of NewWebsocketPipeManager,
\* conns says of each CreatePipe call whether its conn is a connection or nil
ManagerInitOf(todo, ids, conns, bytes, limit) ==
    /\ interruptMemoryLimitPerConnInBytes = limit
    /\ addToPool = [r \in Registrars |-> [pc |-> "ok", url |-> "", todo |-> todo[r]]]
    /\ getConn = [t \in Threads |-> [pc |-> "idle", conn |-> Nil]]
    /\ clientPipesMap = [c \in ClientIds |-> Nil]
    /\ createPipe = [k \in Callers |->
                        [pc |-> IF ids[k] = "" THEN "off" ELSE "load",
                         clientId |-> ids[k], conn |-> conns[k], ret |-> "none"]]
    /\ pipe = [k \in Callers |-> NoPipe]
    /\ fwd = [k \in Callers |-> NoCopy]
    /\ bwd = [k \in Callers |-> NoCopy]
    /\ lis = [k \in Callers |-> "off"]
    /\ clientBytes = bytes
    /\ clientRead = [k \in Callers |-> 0]
    /\ delivered = [k \in Callers |-> <<>>]
    /\ panicked = FALSE

\* the manager whose CreatePipe calls all come with a connection
ManagerInitWith(todo, ids, bytes, limit) ==
    ManagerInitOf(todo, ids, [k \in Callers |-> TRUE], bytes, limit)

\* the manager with the limit of the model
ManagerInit(todo, ids, bytes) == ManagerInitWith(todo, ids, bytes, BufferByteLimit)

\* two clients, with the same clientId or not, and two backends
Init ==
    /\ PoolInit
    /\ up = [u \in URLs |-> TRUE]
    /\ \E id \in ClientIds :
         ManagerInit(<<(<<"ws://b1", "ws://b2">>), <<>> >>, <<"c1", id>>,
                     <<PairClientBytes, 0>>)

PoolStep ==
    \/ \E r \in Registrars : AddToPool_Call(r) \/ AddToPool_Load(r) \/ AddToPool_Push(r)
    \/ startIdleConnectionFiller
    \/ erroredConnectionRefresher
    \/ \E t \in Threads : GetConn_Fetch(t) \/ GetConn_Dial(t)

PipeStep ==
    \E k \in Callers :
        \/ CreatePipe_Load(k) \/ CreatePipe_Store(k)
        \/ listenForErrors_Recv(k) \/ ErrorListener(k)
        \/ ErrorListener_Assign(k) \/ ErrorListener_Clear(k)
        \/ Fwd_Read(k) \/ Fwd_Write(k)
        \/ Bwd_Top(k) \/ Bwd_ReadData(k) \/ Bwd_ReadFail(k) \/ Bwd_After(k)

World == \E n \in 1..Len(netConns) : BackendFail(n)

Next == PoolStep \/ PipeStep \/ World

Spec == Init /\ [][Next]_vars

\* ------------------------------------------------ the pool on its own
\* a caller of the pool (as in the pool's tests) calls GetConn ...
Client_GetConn(t) ==
    /\ ~panicked
    /\ getConn[t].pc = "idle"
    /\ getConn' = [getConn EXCEPT ![t].pc = "fetch"]
    /\ UNCHANGED <<poolVars, addToPool, mgrVars, pipeVars, panicked>>

\* ... and calls MarkError on the connection GetConn returned
Client_MarkError(t) ==
    /\ ~panicked
    /\ getConn[t].pc = "ret"
    /\ inUseMap' = MarkErrorInUse(getConn[t].conn)
    /\ backendConns' = MarkErrorConns(getConn[t].conn)
    /\ erroredConnections' = MarkErrorQueue(getConn[t].conn)
    /\ getConn' = [getConn EXCEPT ![t] = [pc |-> "idle", conn |-> Nil]]
    /\ UNCHANGED <<availableBackendUrls, registeredBackendUrls, idleConnections,
                   idleConnCount, netConns, up, listOp, addToPool, mgrVars, pipeVars, panicked>>

\* two registrars, one of which adds a url the other adds too, two callers of
\* GetConn and MarkError, backends that can be dialed or not, and no pipe
PoolOnlyInit ==
    /\ PoolInit
    /\ up \in {f \in [URLs -> BOOLEAN] : f["ws://b3"]}
    /\ ManagerInit(<<(<<"ws://b1", "ws://b2", "ws://b1">>), <<"ws://b1">> >>,
                   <<"", "">>, <<0, 0>>)

PoolClients == Callers \X {"create"}

PoolNext ==
    \/ PoolStep
    \/ \E t \in PoolClients : Client_GetConn(t) \/ Client_MarkError(t)

PoolSpec == PoolOnlyInit /\ [][PoolNext]_vars

\* ------------------------------- the pool with AddToPool calls in sequence
\* one registrar adds a url, another url, and the first url again
SeqInit ==
    /\ PoolInit
    /\ up \in {f \in [URLs -> BOOLEAN] : f["ws://b3"]}
    /\ ManagerInit(<<(<<"ws://b1", "ws://b2", "ws://b1">>), <<>> >>, <<"", "">>, <<0, 0>>)

SeqSpec == SeqInit /\ [][PoolNext]_vars

\* ----------------------------- callers that call MarkError a second time
\* MarkError(conn) by a caller that keeps conn ...
Client_MarkErrorKeep(t) ==
    /\ ~panicked
    /\ getConn[t].pc = "ret"
    /\ inUseMap' = MarkErrorInUse(getConn[t].conn)
    /\ backendConns' = MarkErrorConns(getConn[t].conn)
    /\ erroredConnections' = MarkErrorQueue(getConn[t].conn)
    /\ getConn' = [getConn EXCEPT ![t].pc = "marked"]
    /\ UNCHANGED <<availableBackendUrls, registeredBackendUrls, idleConnections,
                   idleConnCount, netConns, up, listOp, addToPool, mgrVars, pipeVars, panicked>>

\* ... and calls MarkError(conn) once more
Client_MarkErrorAgain(t) ==
    /\ ~panicked
    /\ getConn[t].pc = "marked"
    /\ inUseMap' = MarkErrorInUse(getConn[t].conn)
    /\ backendConns' = MarkErrorConns(getConn[t].conn)
    /\ erroredConnections' = MarkErrorQueue(getConn[t].conn)
    /\ getConn' = [getConn EXCEPT ![t] = [pc |-> "idle", conn |-> Nil]]
    /\ UNCHANGED <<availableBackendUrls, registeredBackendUrls, idleConnections,
                   idleConnCount, netConns, up, listOp, addToPool, mgrVars, pipeVars, panicked>>

MarkTwiceNext ==
    \/ PoolStep
    \/ \E t \in PoolClients :
         Client_GetConn(t) \/ Client_MarkErrorKeep(t) \/ Client_MarkErrorAgain(t)

MarkTwiceSpec == SeqInit /\ [][MarkTwiceNext]_vars

\* ------------------------------------- one url and one caller of GetConn
\* the url can be dialed; it is registered (twice, as in the pool's first test),
\* and one caller calls GetConn and MarkError in turn
OneCaller == <<1, "create">>

GetConnInit ==
    /\ PoolInit
    /\ up = [u \in URLs |-> TRUE]
    /\ ManagerInit(<<(<<"ws://b1">>), <<"ws://b1">> >>, <<"", "">>, <<0, 0>>)

GetConnNext ==
    \/ PoolStep
    \/ Client_GetConn(OneCaller)
    \/ Client_MarkError(OneCaller)

\* the goroutines of the pool and the calls in flight are scheduled; when the
\* caller calls GetConn or MarkError is up to the caller
PoolFairness ==
    /\ WF_vars(startIdleConnectionFiller)
    /\ WF_vars(erroredConnectionRefresher)
    /\ \A r \in Registrars : WF_vars(AddToPool_Load(r) \/ AddToPool_Push(r))
    /\ \A t \in Threads : WF_vars(GetConn_Fetch(t) \/ GetConn_Dial(t))

GetConnSpec == GetConnInit /\ [][GetConnNext]_vars /\ PoolFairness

\* ------------------------------- two CreatePipe calls and one backend
\* the second call comes with the clientId of the first or with another one
DupInit ==
    /\ PoolInit
    /\ up = [u \in URLs |-> TRUE]
    /\ \E id \in ClientIds :
         ManagerInit(<<(<<"ws://b1">>), <<>> >>, <<"c1", id>>, <<PairClientBytes, 0>>)

DupSpec == DupInit /\ [][Next]_vars

\* ------------------------------ a manager whose memory limit is not set
\* HandlerConfig without InterruptMemoryLimitPerConnInBytes: the int is 0
UnsetInit ==
    /\ PoolInit
    /\ up = [u \in URLs |-> TRUE]
    /\ ManagerInitWith(<<(<<"ws://b1", "ws://b2">>), <<>> >>, <<"c1", "">>,
                       <<MaxClientBytes, 0>>, 0)

UnsetSpec == UnsetInit /\ [][Next]_vars

\* ------------------------------------------ one client and its bytes
CopyInit ==
    /\ PoolInit
    /\ up = [u \in URLs |-> TRUE]
    /\ ManagerInit(<<(<<"ws://b1", "ws://b2">>), <<>> >>, <<"c1", "">>,
                   <<MaxClientBytes, 0>>)

CopySpec == CopyInit /\ [][Next]_vars

\* the goroutines of the program are scheduled fairly: each step that stays
\* enabled is taken.  What the world does (a client sending or closing, a
\* backend failing, somebody registering a url) is under no obligation
Fairness ==
    /\ WF_vars(startIdleConnectionFiller)
    /\ WF_vars(erroredConnectionRefresher)
    /\ \A r \in Registrars : WF_vars(AddToPool_Load(r) \/ AddToPool_Push(r))
    /\ \A t \in Threads : WF_vars(GetConn_Fetch(t) \/ GetConn_Dial(t))
    /\ \A k \in Callers :
         /\ WF_vars(CreatePipe_Load(k) \/ CreatePipe_Store(k))
         /\ WF_vars(listenForErrors_Recv(k) \/ ErrorListener(k)
                      \/ ErrorListener_Assign(k) \/ ErrorListener_Clear(k))
         /\ WF_vars(Fwd_Write(k))
         /\ WF_vars(Bwd_Top(k) \/ Bwd_ReadData(k) \/ Bwd_ReadFail(k) \/ Bwd_After(k))

FairSpec == CopyInit /\ [][Next]_vars /\ Fairness

\* copyBuffer(CopyToBackend), line 69: a Read that returns bytes of the client
Fwd_ReadBytes(k) == Fwd_Read(k) /\ clientRead'[k] # clientRead[k]

\* the forward loop is scheduled fairly as well: while the client has bytes
\* that were not read, its Read returns them
FlushSpec == FairSpec /\ \A k \in Callers : WF_vars(Fwd_ReadBytes(k))

\* ------------------------------ a CreatePipe call whose conn is nil
\* two clients and two backends; the second client's conn is nil, so its
\* Stream fails; the goroutines are scheduled fairly
NilConnInit ==
    /\ PoolInit
    /\ up = [u \in URLs |-> TRUE]
    /\ ManagerInitOf(<<(<<"ws://b1", "ws://b2">>), <<>> >>, <<"c1", "c2">>,
                     <<TRUE, FALSE>>, <<PairClientBytes, 0>>, BufferByteLimit)

NilConnSpec == NilConnInit /\ [][Next]_vars /\ Fairness

\* ---------------------- three urls, of which the last can always be dialed
\* one registrar adds them in turn; the pool's goroutines and the calls in
\* flight are scheduled fairly
LeakInit ==
    /\ PoolInit
    /\ up \in {f \in [URLs -> BOOLEAN] : f["ws://b3"]}
    /\ ManagerInit(<<(<<"ws://b1", "ws://b2", "ws://b3">>), <<>> >>, <<"", "">>, <<0, 0>>)

LeakSpec == LeakInit /\ [][PoolNext]_vars /\ PoolFairness

\* ============================== the pool's lists, method call by method call
\* availableBackendUrls, idleConnections and erroredConnections are
\* container/list lists.  A call of Front, Remove or PushBack takes time: the
\* goroutine is inside the list from the call to the return.  Only
\* tryAndFetchConnectionFromIdleList holds a lock (idleConnMutex) meanwhile.
\* listOp[u].q is the list u is inside, x the entry it is about to push, hit
\* whether another goroutine was inside the same list during the call

\* the fields of the pool other than listOp
poolData == <<availableBackendUrls, registeredBackendUrls, inUseMap, idleConnections,
              idleConnCount, erroredConnections, backendConns, netConns, up>>

FillerUser == <<"filler", 0>>
RefresherUser == <<"refresher", 0>>
AddUser(r) == <<"add", r>>
ThreadUser(t) == <<t[2], t[1]>>

\* u goes into list q, with x in hand: it and whoever is inside q overlap
EnterList(u, q, x) ==
    [v \in ListUsers |->
        IF v = u
        THEN [q |-> q, x |-> x, hit |-> \E w \in ListUsers \ {u} : listOp[w].q = q]
        ELSE IF listOp[v].q = q THEN [listOp[v] EXCEPT !.hit = TRUE]
        ELSE listOp[v]]

LeaveList(u) == [listOp EXCEPT ![u] = NoListOp]

\* what a method of container/list does when it ran alone, and what it can do
\* when it overlapped another one on the same list (a data race on the
\* element pointers and on len): the same, or the element is not linked in,
\* or a nil element is dereferenced
ListOutcomes(u, racy) == IF listOp[u].hit THEN racy ELSE {"done"}

\* AddToPool, line 293: availableBackendUrls.PushBack(url) is called ...
List_AddToPool_PushBack(r) ==
    /\ ~panicked
    /\ addToPool[r].pc = "push"
    /\ listOp[AddUser(r)].q = "none"
    /\ listOp' = EnterList(AddUser(r), "available", Nil)
    /\ UNCHANGED <<poolData, callVars, mgrVars, pipeVars, panicked>>

\* ... and returns; then registeredBackendUrls.Store(url, true), line 294
List_AddToPool_Store(r) ==
    /\ ~panicked
    /\ listOp[AddUser(r)].q = "available"
    /\ \E o \in ListOutcomes(AddUser(r), {"done", "lost", "panic"}) :
         /\ panicked' = (o = "panic")
         /\ availableBackendUrls' = IF o = "done"
                                    THEN Append(availableBackendUrls, addToPool[r].url)
                                    ELSE availableBackendUrls
         /\ registeredBackendUrls' = IF o = "panic" THEN registeredBackendUrls
                                     ELSE registeredBackendUrls \cup {addToPool[r].url}
         /\ addToPool' = IF o = "panic" THEN addToPool
                         ELSE [addToPool EXCEPT ![r].pc = "ok"]
    /\ listOp' = LeaveList(AddUser(r))
    /\ UNCHANGED <<inUseMap, idleConnections, idleConnCount, erroredConnections,
                   backendConns, netConns, up, getConn, mgrVars, pipeVars>>

\* startIdleConnectionFiller, lines 321-326: with idleConnCount within the
\* maximum, availableBackendUrls.Front() is called
List_Filler_Front ==
    /\ ~panicked
    /\ listOp[FillerUser].q = "none"
    /\ idleConnCount <= MaxIdleConnections
    /\ listOp' = EnterList(FillerUser, "available", Nil)
    /\ UNCHANGED <<poolData, callVars, mgrVars, pipeVars, panicked>>

\* startIdleConnectionFiller, lines 327-338: no front, and the filler sleeps;
\* else Remove(front) returns, idleConnCount is counted up, the BackendConn is
\* made and idleConnections.PushBack is called
List_Filler_Remove ==
    /\ ~panicked
    /\ listOp[FillerUser].q = "available"
    /\ IF availableBackendUrls = <<>>
       THEN /\ listOp' = LeaveList(FillerUser)
            /\ UNCHANGED <<availableBackendUrls, idleConnCount, backendConns, panicked>>
       ELSE \E o \in ListOutcomes(FillerUser, {"done", "panic"}) :
              /\ panicked' = (o = "panic")
              /\ IF o = "done"
                 THEN /\ availableBackendUrls' = Tail(availableBackendUrls)
                      /\ idleConnCount' = idleConnCount + 1
                      /\ backendConns' = Append(backendConns,
                                                BackendConn(Head(availableBackendUrls)))
                      /\ listOp' = EnterList(FillerUser, "idle", Len(backendConns) + 1)
                 ELSE /\ listOp' = LeaveList(FillerUser)
                      /\ UNCHANGED <<availableBackendUrls, idleConnCount, backendConns>>
    /\ UNCHANGED <<registeredBackendUrls, inUseMap, idleConnections, erroredConnections,
                   netConns, up, callVars, mgrVars, pipeVars>>

\* erroredConnectionRefresher, line 347: erroredConnections.Front() is called
List_Refresher_Front ==
    /\ ~panicked
    /\ listOp[RefresherUser].q = "none"
    /\ listOp' = EnterList(RefresherUser, "errored", Nil)
    /\ UNCHANGED <<poolData, callVars, mgrVars, pipeVars, panicked>>

\* erroredConnectionRefresher, lines 348-361: no front, and the refresher
\* sleeps; else Remove(front) returns and, below maxAllowedErrorCount, Conn is
\* set to nil and idleConnections.PushBack is called
List_Refresher_Remove ==
    /\ ~panicked
    /\ listOp[RefresherUser].q = "errored"
    /\ IF erroredConnections = <<>>
       THEN /\ listOp' = LeaveList(RefresherUser)
            /\ UNCHANGED <<erroredConnections, backendConns, panicked>>
       ELSE \E o \in ListOutcomes(RefresherUser, {"done", "panic"}) :
              LET c == Head(erroredConnections) IN
                /\ panicked' = (o = "panic")
                /\ IF o = "done"
                   THEN /\ erroredConnections' = Tail(erroredConnections)
                        /\ IF backendConns[c].errorCount < MaxAllowedErrorCount
                           THEN /\ backendConns' = [backendConns EXCEPT ![c].Conn = Nil]
                                /\ listOp' = EnterList(RefresherUser, "idle", c)
                           ELSE /\ listOp' = LeaveList(RefresherUser)
                                /\ UNCHANGED backendConns
                   ELSE /\ listOp' = LeaveList(RefresherUser)
                        /\ UNCHANGED <<erroredConnections, backendConns>>
    /\ UNCHANGED <<availableBackendUrls, registeredBackendUrls, inUseMap, idleConnections,
                   idleConnCount, netConns, up, callVars, mgrVars, pipeVars>>

\* lines 333 and 356: idleConnections.PushBack of the filler or the refresher
\* returns
List_PushBackIdle(u) ==
    /\ ~panicked
    /\ listOp[u].q = "idle"
    /\ \E o \in ListOutcomes(u, {"done", "lost", "panic"}) :
         /\ panicked' = (o = "panic")
         /\ idleConnections' = IF o = "done" THEN Append(idleConnections, listOp[u].x)
                               ELSE idleConnections
    /\ listOp' = LeaveList(u)
    /\ UNCHANGED <<availableBackendUrls, registeredBackendUrls, inUseMap, idleConnCount,
                   erroredConnections, backendConns, netConns, up,
                   callVars, mgrVars, pipeVars>>

\* tryAndFetchConnectionFromIdleList, lines 308-310: idleConnMutex.Lock(), which
\* waits for any other GetConn call to unlock, and idleConnections.Front()
List_GetConn_Lock(t) ==
    /\ ~panicked
    /\ getConn[t].pc = "fetch"
    /\ listOp[ThreadUser(t)].q = "none"
    /\ \A t2 \in Threads : listOp[ThreadUser(t2)].q # "idle"
    /\ listOp' = EnterList(ThreadUser(t), "idle", Nil)
    /\ UNCHANGED <<poolData, callVars, mgrVars, pipeVars, panicked>>

\* tryAndFetchConnectionFromIdleList, lines 311-315: Remove(conn), if there is
\* one, and the deferred Unlock
List_GetConn_Remove(t) ==
    /\ ~panicked
    /\ getConn[t].pc = "fetch"
    /\ listOp[ThreadUser(t)].q = "idle"
    /\ IF idleConnections = <<>>
       THEN UNCHANGED <<idleConnections, getConn, panicked>>
       ELSE \E o \in ListOutcomes(ThreadUser(t), {"done", "panic"}) :
              /\ panicked' = (o = "panic")
              /\ IF o = "done"
                 THEN /\ idleConnections' = Tail(idleConnections)
                      /\ getConn' = [getConn EXCEPT
                             ![t] = [pc |-> "dial", conn |-> Head(idleConnections)]]
                 ELSE UNCHANGED <<idleConnections, getConn>>
    /\ listOp' = LeaveList(ThreadUser(t))
    /\ UNCHANGED <<availableBackendUrls, registeredBackendUrls, inUseMap, idleConnCount,
                   erroredConnections, backendConns, netConns, up, addToPool,
                   mgrVars, pipeVars>>

\* GetConn, lines 265-276 when the dial succeeds or is not needed
List_GetConn_Dialed(t) == GetConn_Dial(t) /\ getConn'[t].pc = "ret"

\* MarkError, lines 300-304, called by GetConn after a failed dial (line 268) or
\* by the caller that got the entry: Delete from inUseMap, errorCount, and
\* erroredConnections.PushBack is called
List_MarkError(t) ==
    /\ ~panicked
    /\ listOp[ThreadUser(t)].q = "none"
    /\ LET c == getConn[t].conn IN
         /\ \/ /\ getConn[t].pc = "dial"
               /\ backendConns[c].Conn = Nil /\ ~up[backendConns[c].connUrl]
            \/ getConn[t].pc = "ret"
         /\ inUseMap' = MarkErrorInUse(c)
         /\ backendConns' = MarkErrorConns(c)
         /\ listOp' = EnterList(ThreadUser(t), "errored", c)
    /\ UNCHANGED <<availableBackendUrls, registeredBackendUrls, idleConnections,
                   idleConnCount, erroredConnections, netConns, up,
                   callVars, mgrVars, pipeVars, panicked>>

\* MarkError, line 304: PushBack returns; GetConn goes on with its loop, the
\* caller has given the entry back
List_MarkError_PushBack(t) ==
    /\ ~panicked
    /\ listOp[ThreadUser(t)].q = "errored"
    /\ \E o \in ListOutcomes(ThreadUser(t), {"done", "lost", "panic"}) :
         /\ panicked' = (o = "panic")
         /\ erroredConnections' = IF o = "done"
                                  THEN Append(erroredConnections, listOp[ThreadUser(t)].x)
                                  ELSE erroredConnections
         /\ getConn' = IF o = "panic" THEN getConn
                       ELSE [getConn EXCEPT ![t] =
                               [pc |-> IF getConn[t].pc = "dial" THEN "fetch" ELSE "idle",
                                conn |-> Nil]]
    /\ listOp' = LeaveList(ThreadUser(t))
    /\ UNCHANGED <<availableBackendUrls, registeredBackendUrls, inUseMap, idleConnections,
                   idleConnCount, backendConns, netConns, up, addToPool,
                   mgrVars, pipeVars>>

\* two registrars, two callers of GetConn and MarkError, the filler and the
\* refresher; the first url cannot be dialed, the second can
ListInit ==
    /\ PoolInit
    /\ up = [u \in URLs |-> u # "ws://b1"]
    /\ ManagerInit(<<(<<"ws://b1">>), <<"ws://b2">> >>, <<"", "">>, <<0, 0>>)

ListNext ==
    \/ \E r \in Registrars :
          \/ AddToPool_Call(r) \/ AddToPool_Load(r)
          \/ List_AddToPool_PushBack(r) \/ List_AddToPool_Store(r)
    \/ List_Filler_Front \/ List_Filler_Remove
    \/ List_Refresher_Front \/ List_Refresher_Remove
    \/ \E u \in {FillerUser, RefresherUser} : List_PushBackIdle(u)
    \/ \E t \in PoolClients :
          \/ Client_GetConn(t) \/ List_GetConn_Lock(t) \/ List_GetConn_Remove(t)
          \/ List_GetConn_Dialed(t) \/ List_MarkError(t) \/ List_MarkError_PushBack(t)

ListSpec == ListInit /\ [][ListNext]_vars

\* =============================================================== claims

\* the number of entries for url u in the four places of the pool
Entries(u) ==
    Count(availableBackendUrls, u)
    + Cardinality({i \in 1..Len(idleConnections) : backendConns[idleConnections[i]].connUrl = u})
    + (IF inUseMap[u] # Nil THEN 1 ELSE 0)
    + Cardinality({i \in 1..Len(erroredConnections) : backendConns[erroredConnections[i]].connUrl = u})

\* C1: for every url there is at most one entry in the available queue, the
\* idle queue, the in-use set and the errored queue together, also with two
\* AddToPool calls for the same url running at once
C1_OneEntryPerUrl == \A u \in URLs : Entries(u) <= 1

\* a pipe whose goroutines run: Stream started them and the client is there
Running(k) == pipe[k].exists /\ fwd[k].pc \in {"read", "write"} /\ bwd[k].pc # "done"

\* C2: no two pipes have the same BackendConn as their backend at the same time
C2_NoSharedBackend ==
    \A k1, k2 \in Callers :
        (k1 # k2 /\ Running(k1) /\ Running(k2))
            => pipe[k1].BackendConn # pipe[k2].BackendConn

\* C3: the staging buffer of a pipe never holds more than bufferByteLimit bytes
C3_BufferWithinLimit ==
    \A k \in Callers : Len(pipe[k].backendBuffer) <= pipe[k].bufferByteLimit

\* C4: unless the pipe ended on the buffer limit, the bytes written to backends
\* are a prefix of the bytes read from the client: none dropped, doubled or
\* out of order
C4_DeliveredIsPrefix ==
    \A k \in Callers :
        fwd[k].err # "buffer limit"
            => IsPrefix(delivered[k], Chunk(0, clientRead[k]))

\* C5: when the client's stream ends (io.EOF), CreatePipe eventually returns nil
C5_EofReturnsNil ==
    \A k \in Callers :
        (fwd[k].pc = "done" /\ fwd[k].err = "nil")
            ~> (createPipe[k].pc = "returned" /\ createPipe[k].ret = "nil")

\* C6: when a Read of the client fails with another error than io.EOF, the
\* pipe's ClientErr is set
C6_ReadErrorSetsClientErr ==
    \A k \in Callers : fwd[k].err = "read error" => pipe[k].ClientErr # "nil"

\* C7: when the bytes of the client would take the staging buffer over the
\* limit while the backend is absent, CreatePipe eventually returns the
\* buffer-limit error
C7_OverflowReturnsError ==
    \A k \in Callers :
        (fwd[k].pc = "done" /\ fwd[k].err = "buffer limit")
            ~> (createPipe[k].pc = "returned" /\ createPipe[k].ret = "buffer limit")

\* C8: a CreatePipe call whose clientId is a key of clientPipesMap returns the
\* duplicate error, does not call GetConn and leaves the pool and the map as
\* they are
C8_DuplicateChangesNothing ==
    [][\A k \in Callers :
          (/\ createPipe[k].pc = "load"
           /\ clientPipesMap[createPipe[k].clientId] # Nil
           /\ createPipe'[k] # createPipe[k])
          => /\ createPipe'[k].pc = "returned"
             /\ createPipe'[k].ret = "duplicate"
             /\ UNCHANGED <<poolVars, getConn, clientPipesMap, pipeVars>>]_vars

\* a call came back with the duplicate error and never was in GetConn
C8_Witness ==
    \E k \in Callers :
        /\ createPipe[k].pc = "returned" /\ createPipe[k].ret = "duplicate"
        /\ clientPipesMap[createPipe[k].clientId] # Nil
        /\ getConn[<<k, "create">>] = [pc |-> "idle", conn |-> Nil]

\* C9: of two CreatePipe calls with the same clientId at most one creates a pipe
C9_OnePipePerClient ==
    \A k1, k2 \in Callers :
        (k1 # k2 /\ pipe[k1].exists /\ pipe[k2].exists)
            => pipe[k1].ClientID # pipe[k2].ClientID

\* C10: when the client side of a pipe has ended (its forward loop is over), the
\* pipe's clientId is eventually no key of clientPipesMap any more
C10_ClientIdFreedOnCompletion ==
    \A k \in Callers :
        (pipe[k].exists /\ fwd[k].pc = "done")
            ~> (\A c \in ClientIds : c = pipe[k].ClientID => clientPipesMap[c] = Nil)

\* the step of thread t in which GetConn returns
GetConnReturns(t) == getConn[t].pc = "dial" /\ getConn'[t].pc = "ret"

\* C11: the entry GetConn returns has, when it is returned, a connection that is
\* not nil and is live, and is the entry of inUseMap for its url; and a url gets
\* into inUseMap only by GetConn returning its entry
C11_GetConnReturnsLiveInUse ==
    [][/\ \A t \in Threads :
            GetConnReturns(t) =>
                LET c == getConn'[t].conn IN
                  /\ c # Nil
                  /\ backendConns'[c].Conn # Nil
                  /\ netConns'[backendConns'[c].Conn] = "live"
                  /\ inUseMap'[backendConns'[c].connUrl] = c
       /\ \A u \in URLs :
            (inUseMap'[u] # Nil /\ inUseMap'[u] # inUseMap[u]) =>
                \E t \in Threads : GetConnReturns(t) /\ getConn'[t].conn = inUseMap'[u]]_vars

\* GetConn has returned an entry while another url is registered and not in use
C11_Witness ==
    \E t \in Threads, u \in URLs :
        /\ getConn[t].pc = "ret"
        /\ inUseMap[backendConns[getConn[t].conn].connUrl] = getConn[t].conn
        /\ u \in registeredBackendUrls /\ inUseMap[u] = Nil

\* C12: with one url registered that can be dialed, a first call of GetConn (no
\* entry has failed yet) eventually returns, and returns an entry of that url
C12_GetConnEventuallyReturns ==
    (/\ getConn[OneCaller].pc = "fetch"
     /\ registeredBackendUrls = {"ws://b1"}
     /\ \A c \in 1..Len(backendConns) : backendConns[c].errorCount = 0)
        ~> (/\ getConn[OneCaller].pc = "ret"
            /\ backendConns[getConn[OneCaller].conn].connUrl = "ws://b1")

\* the first call of GetConn has returned the entry of the registered url
C12_Witness ==
    /\ getConn[OneCaller].pc = "ret"
    /\ backendConns[getConn[OneCaller].conn].connUrl = "ws://b1"
    /\ backendConns[getConn[OneCaller].conn].errorCount = 0
    /\ registeredBackendUrls = {"ws://b1"}

\* C13: with AddToPool calls in sequence, a call for a url that is not
\* registered goes on, appends the url to the available list, registers it and
\* returns nil (and only such a call does); a call for a registered url returns
\* the error and leaves the available list and the registered urls as they are
C13_AddToPoolOncePerUrl ==
    [][\A r \in Registrars :
          LET u == addToPool[r].url IN
            /\ (addToPool[r].pc = "load" /\ addToPool'[r].pc # "load") =>
                  IF u \in registeredBackendUrls
                  THEN /\ addToPool'[r].pc = "error"
                       /\ UNCHANGED <<availableBackendUrls, registeredBackendUrls>>
                  ELSE addToPool'[r].pc = "push"
            /\ (addToPool[r].pc = "push" /\ addToPool'[r].pc # "push") =>
                  /\ addToPool'[r].pc = "ok"
                  /\ u \notin registeredBackendUrls
                  /\ availableBackendUrls' = Append(availableBackendUrls, u)
                  /\ registeredBackendUrls' = registeredBackendUrls \cup {u}]_vars

\* the second AddToPool of a url has returned the error
C13_Witness ==
    \E r \in Registrars :
        /\ addToPool[r].pc = "error"
        /\ addToPool[r].url \in registeredBackendUrls
        /\ addToPool[r].todo = <<>>

\* the step in which caller t calls MarkError on the entry GetConn gave it
CallsMarkError(t) == getConn[t].pc = "ret" /\ getConn'[t].pc = "idle"

\* C14: MarkError on an entry that is in inUseMap takes it out of inUseMap, adds
\* one to its errorCount, sets its lastCheckedTime and appends it to the errored
\* list; the rest of the pool stays as it is
C14_MarkErrorEffect ==
    [][\A t \in PoolClients :
          LET c == getConn[t].conn
              u == backendConns[c].connUrl IN
            (CallsMarkError(t) /\ inUseMap[u] = c) =>
                /\ inUseMap' = [inUseMap EXCEPT ![u] = Nil]
                /\ backendConns' = [backendConns EXCEPT
                        ![c].errorCount = backendConns[c].errorCount + 1,
                        ![c].lastCheckedTime = backendConns'[c].lastCheckedTime]
                /\ backendConns'[c].lastCheckedTime # Nil
                /\ erroredConnections' = Append(erroredConnections, c)
                /\ UNCHANGED <<availableBackendUrls, registeredBackendUrls,
                               idleConnections, idleConnCount, netConns>>]_vars

\* MarkError has been called on an entry that GetConn had returned
C14_Witness ==
    \E t \in PoolClients :
        /\ getConn[t].pc = "idle"
        /\ erroredConnections # <<>>
        /\ LET c == erroredConnections[Len(erroredConnections)] IN
             /\ backendConns[c].Conn # Nil
             /\ backendConns[c].errorCount = 1
             /\ backendConns[c].lastCheckedTime # Nil
             /\ inUseMap[backendConns[c].connUrl] = Nil

\* C15: a second MarkError on an entry that is in the errored list changes
\* nothing: errorCount is not counted up again, the entry is not queued again
C15_MarkErrorIdempotent ==
    [][\A t \in PoolClients :
          (/\ getConn[t].pc = "marked" /\ getConn'[t].pc = "idle"
           /\ getConn[t].conn \in Range(erroredConnections))
          => UNCHANGED <<inUseMap, backendConns, erroredConnections>>]_vars

\* an entry whose errorCount has reached the maximum and which the refresher
\* has taken from the errored list
Dropped(c) ==
    /\ backendConns[c].errorCount >= MaxAllowedErrorCount
    /\ c \notin Range(erroredConnections)

\* C16: once the refresher has processed an entry whose errorCount MarkError has
\* raised to maxAllowedErrorCount, the url of the entry is in none of the
\* available, idle, in-use and errored places, and no GetConn has or returns an
\* entry of that url (errorCount never goes down, so this is for ever)
C16_DroppedUrlStaysOut ==
    \A c \in 1..Len(backendConns) :
        Dropped(c) =>
            /\ Entries(backendConns[c].connUrl) = 0
            /\ \A t \in Threads :
                  getConn[t].conn # Nil
                      => backendConns[getConn[t].conn].connUrl # backendConns[c].connUrl


\* the filler makes one BackendConn for each url it promotes, and nothing else
\* makes one
Promoted == Len(backendConns)
\* a GetConn that returns has dialed its entry (idle entries have no
\* connection), and nothing else dials
Returned == Len(netConns)

\* C17: idleConnCount is the number of urls the filler has promoted minus the
\* number of GetConn calls that have returned; the refresher does not change it.
\* With one url, once its entry has been returned and marked until it is
\* dropped, the in-use map and the idle and errored lists are empty and
\* idleConnCount is 1 - maxAllowedErrorCount (-1 for 2): not the length of the
\* idle list
C17_IdleCountIsPromotedMinusReturned ==
    /\ idleConnCount = Promoted - Returned
    /\ (Promoted = 1 /\ Dropped(1) /\ Returned = backendConns[1].errorCount)
          => /\ idleConnCount = 1 - MaxAllowedErrorCount
             /\ idleConnections = <<>>
             /\ erroredConnections = <<>>
             /\ \A u \in URLs : inUseMap[u] = Nil
             /\ idleConnCount # Len(idleConnections)

\* the one entry has been returned, marked and dropped: idleConnCount is negative
C17_Witness ==
    /\ Promoted = 1 /\ Dropped(1) /\ Returned = backendConns[1].errorCount
    /\ availableBackendUrls = <<>>
    /\ idleConnCount < 0
    /\ getConn[OneCaller].pc = "idle"

\* C18: while the copy loops of a pipe run, a call of Stream on it returns an
\* error (and so starts no goroutine), also after a backend error has gone to
\* the listener and after the backend has been replaced
C18_StreamRefusedWhileRunning ==
    \A k \in Callers : Running(k) => StreamResult(pipe[k]) # "nil"

\* the default memory limit per connection of the Readme: 5MB
DefaultBufferByteLimit == 5 * 1024 * 1024

\* C19: a pipe of a manager whose interruptMemoryLimitPerConnInBytes is not set
\* (0) has the default of 5 MiB as its bufferByteLimit, not 0
C19_UnsetLimitIsDefault ==
    \A k \in Callers :
        (pipe[k].exists /\ interruptMemoryLimitPerConnInBytes = 0)
            => pipe[k].bufferByteLimit = DefaultBufferByteLimit

\* C20: a failed Read of the backend with BackendErr nil sets BackendErr and
\* gives one event to the listener, which then calls MarkError on the pipe's
\* backend, calls GetConn, makes the entry GetConn returned the pipe's backend
\* and only then sets BackendErr to nil
C20_ListenerOrder ==
    [][\A k \in Callers :
          LET g == <<k, "listen">> IN
            /\ (/\ bwd[k].pc = "reading" /\ bwd'[k].pc # "reading"
                /\ netConns[bwd[k].rd] = "dead" /\ pipe[k].BackendErr = "nil")
                  => (pipe'[k].BackendErr # "nil" /\ bwd'[k].pc = "send")
            /\ (bwd[k].pc = "send" /\ bwd'[k].pc # "send")
                  => (lis[k] = "recv" /\ lis'[k] = "listener" /\ bwd'[k].pc = "after")
            /\ (lis[k] = "listener" /\ lis'[k] # "listener")
                  => /\ lis'[k] = "getconn"
                     /\ erroredConnections' = Append(erroredConnections, pipe[k].BackendConn)
                     /\ getConn[g].pc = "idle" /\ getConn'[g].pc = "fetch"
                     /\ pipe'[k] = pipe[k] /\ pipe[k].BackendErr # "nil"
            /\ (lis[k] = "getconn" /\ lis'[k] # "getconn")
                  => /\ lis'[k] = "clear"
                     /\ getConn[g].pc = "ret"
                     /\ pipe'[k] = [pipe[k] EXCEPT !.BackendConn = getConn[g].conn]
                     /\ pipe[k].BackendErr # "nil"
            /\ (pipe[k].BackendErr # "nil" /\ pipe'[k].BackendErr = "nil")
                  => (lis[k] = "clear" /\ lis'[k] = "recv")]_vars

\* a backend failure has been handled to the end: the listener waits again, the
\* pipe has a backend with a live connection and BackendErr is nil
C20_Witness ==
    \E k \in Callers :
        /\ pipe[k].exists /\ ~pipe[k].streamOn
        /\ lis[k] = "recv" /\ bwd[k].pc = "read"
        /\ pipe[k].BackendErr = "nil"
        /\ erroredConnections = <<>>
        /\ backendConns[pipe[k].BackendConn].Conn # Nil
        /\ netConns[backendConns[pipe[k].BackendConn].Conn] = "live"

\* C21: after a substitution (BackendConn replaced, BackendErr cleared) that
\* leaves bytes in the staging buffer, the forward loop eventually writes them
\* to the new backend, whether or not the client sends more bytes; the pipe is
\* excused when the forward loop has ended, the backend failed again or the
\* program panicked
C21_FlushAfterSubstitution ==
    \A k \in Callers :
        (/\ pipe[k].exists /\ lis[k] = "recv" /\ pipe[k].BackendErr = "nil"
         /\ pipe[k].backendBuffer # <<>> /\ fwd[k].pc \in {"read", "write"})
            ~> \/ pipe[k].backendBuffer = <<>>
               \/ fwd[k].pc = "done"
               \/ pipe[k].BackendErr # "nil"
               \/ panicked

\* C22: when the forward loop reads bytes b with BackendErr nil and bytes in the
\* staging buffer, the Write it goes on to is the staged bytes followed by b,
\* and a Write that succeeds leaves the staging buffer empty
C22_FlushWritesBufferThenBytes ==
    [][\A k \in Callers :
          /\ (/\ fwd[k].pc = "read" /\ clientRead'[k] > clientRead[k]
              /\ pipe[k].BackendErr = "nil" /\ pipe[k].backendBuffer # <<>>)
             => /\ fwd'[k].pc = "write"
                /\ fwd'[k].wr = pipe[k].backendBuffer
                                  \o Chunk(clientRead[k], clientRead'[k] - clientRead[k])
          /\ (fwd[k].pc = "write" /\ delivered'[k] # delivered[k])
             => pipe'[k].backendBuffer = <<>>]_vars

\* C23: when a Write of the forward loop to the backend fails, BackendErr is
\* non-nil afterwards, and the bytes of the Write are appended to the staging
\* buffer within bufferByteLimit with the loop going on (or the loop ends on the
\* buffer limit, never on the Write error)
C23_WriteFailureSetsBackendErr ==
    [][\A k \in Callers :
          (/\ fwd[k].pc = "write" /\ fwd'[k].pc # "write"
           /\ delivered'[k] = delivered[k])
          => /\ pipe'[k].BackendErr # "nil"
             /\ \/ /\ fwd'[k].pc = "read"
                   /\ pipe'[k].backendBuffer = pipe[k].backendBuffer \o fwd[k].wr
                   /\ Len(pipe'[k].backendBuffer) <= pipe[k].bufferByteLimit
                \/ /\ fwd'[k].pc = "done" /\ fwd'[k].err = "buffer limit"
                   /\ pipe'[k].backendBuffer = pipe[k].backendBuffer]_vars

\* C24: when the forward loop has read bytes b and finds BackendErr non-nil, it
\* writes nothing to the backend: either b fits (len(backendBuffer) + len(b) <=
\* bufferByteLimit) and the staging buffer becomes its old content followed by
\* b, or the loop ends on the buffer limit and the staging buffer is as before
C24_BufferingBranch ==
    [][\A k \in Callers :
          (/\ fwd[k].pc = "read" /\ clientRead'[k] > clientRead[k]
           /\ pipe[k].BackendErr # "nil")
          => LET b == Chunk(clientRead[k], clientRead'[k] - clientRead[k]) IN
               /\ delivered'[k] = delivered[k]
               /\ fwd'[k].pc # "write"
               /\ IF Len(pipe[k].backendBuffer) + Len(b) <= pipe[k].bufferByteLimit
                  THEN /\ fwd'[k].pc = "read"
                       /\ pipe'[k].backendBuffer = pipe[k].backendBuffer \o b
                  ELSE /\ fwd'[k].pc = "done" /\ fwd'[k].err = "buffer limit"
                       /\ pipe'[k].backendBuffer = pipe[k].backendBuffer]_vars

\* C25: the backward loop is in a Read of the backend only while BackendErr is
\* nil and the listener is not in a substitution; it starts a Read only with
\* BackendErr nil, and on the connection of the pipe's BackendConn as the
\* last substitution left it
C25_BackwardWaits ==
    [][\A k \in Callers :
          /\ bwd'[k].pc = "reading"
             => pipe'[k].BackendErr = "nil" /\ lis'[k] = "recv"
          /\ (bwd[k].pc = "read" /\ bwd'[k].pc = "reading")
             => /\ pipe[k].BackendErr = "nil"
                /\ bwd'[k].rd = backendConns[pipe[k].BackendConn].Conn]_vars

\* the backward loop, which had set BackendErr on its first connection, is in a
\* Read of the connection that the substitution gave the pipe
C25_Witness ==
    \E k \in Callers :
        /\ bwd[k].pc = "reading" /\ bwd[k].rd # 1 /\ netConns[1] = "dead"
        /\ pipe[k].BackendErr = "nil" /\ lis[k] = "recv"
        /\ bwd[k].rd = backendConns[pipe[k].BackendConn].Conn

\* C26: a step of the refresher takes the entry at the front of the errored
\* queue.  With errorCount < maxAllowedErrorCount the entry goes to the end of
\* the idle queue with its Conn cleared; otherwise it goes nowhere: the idle
\* queue, the in-use map and the available urls are as before.  Every entry of
\* the idle queue has no Conn, so the GetConn that pops it dials
C26_RefresherRecyclesOrDrops ==
    [][/\ Len(erroredConnections') < Len(erroredConnections)
          => LET c == Head(erroredConnections) IN
               /\ erroredConnections' = Tail(erroredConnections)
               /\ IF backendConns[c].errorCount < MaxAllowedErrorCount
                  THEN /\ idleConnections' = Append(idleConnections, c)
                       /\ backendConns'[c].Conn = Nil
                  ELSE UNCHANGED <<idleConnections, inUseMap,
                                   availableBackendUrls, backendConns>>
       /\ \A i \in 1..Len(idleConnections') :
              backendConns'[idleConnections'[i]].Conn = Nil]_vars

\* an entry that was dialed and marked errored is in the idle queue again,
\* without a Conn, and another entry was dropped at maxAllowedErrorCount
C26_Witness ==
    /\ \E i \in 1..Len(idleConnections) :
          /\ backendConns[idleConnections[i]].errorCount > 0
          /\ backendConns[idleConnections[i]].Conn = Nil
    /\ \E c \in 1..Len(backendConns) : Dropped(c)

\* C27: the idle queue never has more than maxIdleConnections entries
C27_IdleQueueBounded == Len(idleConnections) <= MaxIdleConnections

\* C28: the idle queue is first in, first out, and a pop is one caller's: the
\* queue changes only by an entry added at its end or by its front entry taken
\* away, and a GetConn call gets an entry only by taking the front entry away,
\* in a step in which no other call gets anything
C28_IdleQueueFifo ==
    [][/\ idleConnections' # idleConnections
          => \/ \E c \in 1..Len(backendConns') : idleConnections' = Append(idleConnections, c)
             \/ /\ idleConnections # <<>>
                /\ idleConnections' = Tail(idleConnections)
                /\ \E t \in Threads :
                      /\ getConn[t].pc = "fetch"
                      /\ getConn'[t] = [pc |-> "dial", conn |-> Head(idleConnections)]
       /\ \A t \in Threads :
            (getConn[t].pc = "fetch" /\ getConn'[t].pc = "dial")
            => /\ idleConnections # <<>>
               /\ getConn'[t].conn = Head(idleConnections)
               /\ idleConnections' = Tail(idleConnections)
               /\ \A t2 \in Threads \ {t} : getConn'[t2] = getConn[t2]]_vars

\* two GetConn calls are under way at once; each has its own entry, taken from
\* an idle queue that held both, and the entry queued second is back first
C28_Witness ==
    \E t1, t2 \in Threads :
        /\ getConn[t1].pc = "dial" /\ getConn[t1].conn = 1
        /\ getConn[t2].pc = "ret" /\ getConn[t2].conn = 2
        /\ backendConns[1].errorCount = 0 /\ backendConns[2].errorCount = 0

\* nothing is left in the pool and nothing is on its way in: no url to
\* register, no available url, no idle or errored entry, no entry held by a
\* caller, and every entry made so far dropped at maxAllowedErrorCount
Exhausted ==
    /\ \A r \in Registrars : addToPool[r].pc \in {"ok", "error"} /\ addToPool[r].todo = <<>>
    /\ availableBackendUrls = <<>>
    /\ idleConnections = <<>>
    /\ erroredConnections = <<>>
    /\ \A t \in Threads : getConn[t].conn = Nil
    /\ \A c \in 1..Len(backendConns) : backendConns[c].errorCount >= MaxAllowedErrorCount

\* C29: a failed dial inside GetConn is not returned: the entry is marked
\* (errorCount + 1, appended to the errored queue, not put into the in-use map,
\* idleConnCount as it was) and the call goes back to the idle queue; GetConn
\* returns only an entry with a live connection; and in an exhausted pool a
\* call that waits for an idle entry keeps waiting
C29_DialFailureStaysInside ==
    [][\A t \in Threads :
          LET c == getConn[t].conn
              u == backendConns[c].connUrl IN
            /\ (/\ getConn[t].pc = "dial" /\ getConn'[t] # getConn[t]
                /\ backendConns[c].Conn = Nil /\ ~up[u])
               => /\ getConn'[t] = [pc |-> "fetch", conn |-> Nil]
                  /\ backendConns'[c].errorCount = backendConns[c].errorCount + 1
                  /\ erroredConnections' = Append(erroredConnections, c)
                  /\ inUseMap'[u] # c
                  /\ idleConnCount' = idleConnCount
            /\ GetConnReturns(t)
               => /\ getConn'[t].conn # Nil
                  /\ backendConns'[getConn'[t].conn].Conn # Nil
            /\ (Exhausted /\ getConn[t].pc = "fetch")
               => (Exhausted' /\ getConn'[t].pc = "fetch")]_vars

\* every dial has failed and every entry was dropped: the pool is exhausted and
\* a GetConn call is still waiting
C29_Witness ==
    /\ Exhausted
    /\ Len(backendConns) > 0
    /\ netConns = <<>>
    /\ \E t \in Threads : getConn[t].pc = "fetch"

\* C30: when Stream fails inside CreatePipe, CreatePipe eventually returns
\* Stream's error to its caller
C30_StreamErrorReturned ==
    \A k \in Callers :
        (pipe[k].exists /\ StreamResult(pipe[k]) = "nil connection"
                        /\ createPipe[k].pc = "sendErr")
            ~> (createPipe[k].pc = "returned" /\ createPipe[k].ret = "nil connection")

\* C31: no two goroutines are inside the same list of the pool at once
C31_ListAccessExclusive ==
    \A u, v \in ListUsers :
        (u # v /\ listOp[u].q # "none") => listOp[u].q # listOp[v].q

\* C32: a url that AddToPool accepted is eventually promoted from the available
\* list to the idle list.  The filler may wait while entries are idle or on
\* their way back to the idle list, so the claim is taken from the moment at
\* which there is none: no idle entry, no errored entry, no entry being dialed
C32_AcceptedUrlPromoted ==
    \A u \in URLs :
        (/\ u \in Range(availableBackendUrls)
         /\ idleConnections = <<>> /\ erroredConnections = <<>>
         /\ \A t \in Threads : getConn[t].pc # "dial")
            ~> (u \notin Range(availableBackendUrls))

\* C33: whenever the forward loop of a pipe writes to the pipe's BackendConn,
\* or the backward loop starts a Read of it, that entry is the one the in-use
\* map holds for its url and its Conn is not nil (so no Write or Read is made
\* on a nil Conn)
C33_LoopsUseInUseEntry ==
    [][/\ panicked' = panicked
       /\ \A k \in Callers :
            LET c == pipe[k].BackendConn IN
              (\/ fwd[k].pc = "write" /\ fwd'[k].pc # "write"
               \/ bwd[k].pc = "read" /\ bwd'[k].pc = "reading")
              => /\ backendConns[c].Conn # Nil
                 /\ inUseMap[backendConns[c].connUrl] = c]_vars

\* the url of an entry that the refresher has dropped
DroppedUrl(u) == \E c \in 1..Len(backendConns) : Dropped(c) /\ backendConns[c].connUrl = u

=============================================================================
